---- MODULE Spec2Model ----
(***************************************************************************)
(* Bounding boxes of points, linestrings and polygons by a keyed           *)
(* (segmented) min/max reduction, and the ULP floating-point comparator.   *)
(*   cpp/include/cuspatial/detail/bounding_boxes.cuh                       *)
(*   unnamed/part_000 (float_equal, signmagnitude_to_biased)               *)
(***************************************************************************)
EXTENDS Integers, Sequences, FiniteSets

VARIABLES
  pc,          \* position of the call in progress
  kind,        \* which entry point was called: "point", "linestring", "polygon"
  ids,         \* the id sequence handed to point_bounding_boxes
  points,      \* the point / vertex sequence
  radius,      \* expansion_radius
  offsets,     \* linestring offsets, or polygon offsets
  ring_offsets,\* polygon ring offsets
  parts,       \* partial results of the keyed reduction in flight
  out,         \* boxes written from bounding_boxes_first on
  ret,         \* returned end position, as a distance from bounding_boxes_first
  err,         \* error raised by the call
  work,        \* stages of device work started by the call
  reordered,   \* some merge was not the next one of a left-to-right reduction
  nanRule,     \* NaN rule of the min/max primitive
  m,           \* operands and results of box_minmax, in SpecMerge
  f            \* operands and result of float_equal, in SpecFloat

vars == <<pc, kind, ids, points, radius, offsets, ring_offsets, parts, out, ret,
          err, work, reordered, nanRule, m, f>>

----------------------------------------------------------------------------
(* Bounds of the model.                                                    *)

MaxPts == 3        \* longest point / vertex sequence
MaxGeoms == 2      \* most linestrings or polygons
MaxRings == 2      \* most rings
ExpBits == 2       \* exponent bits of the small floating-point format
MantBits == 2      \* mantissa bits of the small floating-point format

----------------------------------------------------------------------------
(* Coordinates: integers stand for the finite values, NaN for not-a-number.*)

NaN == 99

RadiusVals == {0, 1}
IdVals == {0, 1}
NanRules == {"ignore", "propagate"}

\* vertices the calls draw from: x and y differ, one has a NaN coordinate
PointVals == {<<0, 0>>, <<2, 1>>, <<NaN, 1>>}

\* ring vertices the polygon calls draw from
RingPointVals == {<<0, 0>>, <<2, 1>>}

SeqsUpTo(S, n) == UNION {[1..k -> S] : k \in 0..n}

fsub(a, b) == IF a = NaN \/ b = NaN THEN NaN ELSE a - b
fadd(a, b) == IF a = NaN \/ b = NaN THEN NaN ELSE a + b
fle(a, b) == a # NaN /\ b # NaN /\ a <= b

fmin(a, b) ==
  IF a = NaN \/ b = NaN
  THEN IF nanRule = "propagate" THEN NaN
       ELSE IF a = NaN THEN b ELSE a
  ELSE IF b < a THEN b ELSE a

fmax(a, b) ==
  IF a = NaN \/ b = NaN
  THEN IF nanRule = "propagate" THEN NaN
       ELSE IF a = NaN THEN b ELSE a
  ELSE IF b > a THEN b ELSE a

vec_sub(p, q) == <<fsub(p[1], q[1]), fsub(p[2], q[2])>>
vec_add(p, q) == <<fadd(p[1], q[1]), fadd(p[2], q[2])>>
box_min(p, q) == <<fmin(p[1], q[1]), fmin(p[2], q[2])>>
box_max(p, q) == <<fmax(p[1], q[1]), fmax(p[2], q[2])>>

----------------------------------------------------------------------------
(* detail::point_bounding_box and detail::box_minmax                        *)

point_bounding_box_swapped(expansion_radius, point) ==
  LET box_offset == <<expansion_radius, expansion_radius>>
  IN  [v1 |-> vec_add(point, box_offset), v2 |-> vec_sub(point, box_offset)]

point_bounding_box(expansion_radius, point) ==
  LET box_offset == <<expansion_radius, expansion_radius>>
  IN  [v1 |-> vec_sub(point, box_offset), v2 |-> vec_add(point, box_offset)]

box_minmax_nomax(a, b) ==
  [v1 |-> box_min(box_min(a.v1, a.v2), b.v1), v2 |-> b.v2]

box_minmax(a, b) ==
  [v1 |-> box_min(box_min(a.v1, a.v2), b.v1),
   v2 |-> box_max(box_max(a.v1, a.v2), b.v2)]

----------------------------------------------------------------------------
(* thrust::reduce_by_key over (ids, point boxes) with thrust::equal_to:     *)
(* an element starts a new run unless its key equals its predecessor's.     *)

IsHeadGlobal(keys, i) == \A j \in 1..(i - 1) : keys[j] # keys[i]

IsHead(keys, i) == i = 1 \/ keys[i - 1] # keys[i]

RunOf(keys, i) == Cardinality({j \in 1..i : IsHead(keys, j)})

\* the transform iterator over the points, tagged with key and run
point_bboxes(keys, pts, r) ==
  [i \in 1..Len(keys) |->
     [key |-> keys[i], run |-> RunOf(keys, i), b |-> point_bounding_box(r, pts[i])]]

RemoveAt(s, j) == [i \in 1..(Len(s) - 1) |-> IF i < j THEN s[i] ELSE s[i + 1]]

\* partial results i < j of one run merged into one, left or right operand first
MergeParts(s, i, j, leftFirst) ==
  LET b == IF leftFirst THEN box_minmax(s[i].b, s[j].b) ELSE box_minmax(s[j].b, s[i].b)
  IN  RemoveAt([s EXCEPT ![i].b = b], j)

\* the merge a sequential left-to-right reduction does next
IsSequentialMerge(s, i, j, leftFirst) ==
  /\ leftFirst
  /\ j = i + 1
  /\ \A k \in 1..(i - 1) : s[k].run # s[i].run
  /\ \A k \in 1..(i - 1) : \A l \in (k + 1)..Len(s) : s[k].run # s[l].run

Reduced(s) == \A i, j \in 1..Len(s) : i # j => s[i].run # s[j].run

----------------------------------------------------------------------------
(* make_geometry_id_iterator: the geometry owning each vertex.              *)

\* 0-based index i of the group with offs[i] <= v < offs[i+1], v 0-based
GroupOf(offs, v) == (CHOOSE i \in 1..(Len(offs) - 1) : offs[i] <= v /\ v < offs[i + 1]) - 1

geometry_ids(offs, n) == [v \in 1..n |-> GroupOf(offs, v - 1)]

geometry_ids_2(poly_offs, ring_offs, n) ==
  [v \in 1..n |-> GroupOf(poly_offs, GroupOf(ring_offs, v - 1))]

\* offset arrays: non-decreasing, starting at 0
OffsetArrays(groups, count) ==
  {o \in UNION {[1..k -> 0..count] : k \in 1..(groups + 1)} :
     /\ o[1] = 0
     /\ \A i \in 1..(Len(o) - 1) : o[i] <= o[i + 1]}

Last(s) == s[Len(s)]

----------------------------------------------------------------------------
(* CUSPATIAL_EXPECTS_VALID_POLYGON_SIZES                                    *)

MinRingVertices == 1

ValidPolygonSizes(num_points, num_poly_offsets, num_ring_offsets) ==
  /\ num_poly_offsets > 0
  /\ num_ring_offsets > 0
  /\ num_ring_offsets >= num_poly_offsets
  /\ num_points >= MinRingVertices * (num_ring_offsets - 1)

----------------------------------------------------------------------------
(* The three entry points, up to the call of point_bounding_boxes.          *)

\* linestring_bounding_boxes, line 119
linestring_entry_novertexcheck(num_linestrings, num_vertices) ==
  IF num_linestrings = 0 THEN "done" ELSE "expand"

linestring_entry(num_linestrings, num_vertices) ==
  IF num_linestrings = 0 \/ num_vertices = 0 THEN "done" ELSE "expand"

\* polygon_bounding_boxes, lines 164 and 182
polygon_entry(num_polys) == IF num_polys > 0 THEN "validate" ELSE "done"

\* polygon_bounding_boxes, lines 165-170
polygon_validated_unchecked(valid, num_polys, num_rings, num_vertices) ==
  IF num_polys = 0 \/ num_rings = 0 \/ num_vertices = 0 THEN "done" ELSE "expand"

polygon_validated(valid, num_polys, num_rings, num_vertices) ==
  IF ~valid THEN "error"
  ELSE IF num_polys = 0 \/ num_rings = 0 \/ num_vertices = 0 THEN "done"
  ELSE "expand"

WellFormedOffsets(offs, count) == Len(offs) >= 1 /\ offs[1] = 0 /\ Last(offs) = count

NoBoxes == <<>>

Init ==
  /\ pc = "idle"
  /\ kind = "none"
  /\ ids = <<>>
  /\ points = <<>>
  /\ radius = 0
  /\ offsets = <<>>
  /\ ring_offsets = <<>>
  /\ parts = <<>>
  /\ out = NoBoxes
  /\ ret = 0
  /\ err = "none"
  /\ work = {}
  /\ reordered = FALSE
  /\ nanRule = "ignore"
  /\ m = [pc |-> "unused"]
  /\ f = [pc |-> "unused"]

\* a caller invokes point_bounding_boxes(ids, points, expansion_radius)
PointCall ==
  /\ pc = "idle"
  /\ \E n \in 0..MaxPts :
       \E keys \in [1..n -> IdVals], pts \in [1..n -> PointVals] :
         /\ ids' = keys
         /\ points' = pts
  /\ radius' \in RadiusVals
  /\ nanRule' \in NanRules
  /\ kind' = "point"
  /\ pc' = "transform"
  /\ UNCHANGED <<offsets, ring_offsets, parts, out, ret, err, work, reordered, m, f>>

\* linestring_bounding_boxes, lines 116-119
LinestringCall ==
  /\ pc = "idle"
  /\ \E offs \in OffsetArrays(MaxGeoms, MaxPts), pts \in SeqsUpTo(PointVals, MaxPts) :
       LET num_linestrings == Len(offs) - 1
           num_vertices == Len(pts)
       IN  /\ num_linestrings = 0 \/ num_vertices = 0 \/ Last(offs) = num_vertices
           /\ offsets' = offs
           /\ points' = pts
           /\ pc' = linestring_entry(num_linestrings, num_vertices)
  /\ radius' \in RadiusVals
  /\ nanRule' \in NanRules
  /\ kind' = "linestring"
  /\ UNCHANGED <<ids, ring_offsets, parts, out, ret, err, work, reordered, m, f>>

\* linestring_bounding_boxes, lines 121-122
LinestringExpand ==
  /\ pc = "expand"
  /\ kind = "linestring"
  /\ ids' = geometry_ids(offsets, Len(points))
  /\ work' = work \cup {"expand"}
  /\ pc' = "transform"
  /\ UNCHANGED <<kind, points, radius, offsets, ring_offsets, parts, out, ret, err,
                 reordered, nanRule, m, f>>

\* polygon_bounding_boxes, lines 160-164 and 182
PolygonCall ==
  /\ pc = "idle"
  /\ \E poffs \in OffsetArrays(MaxGeoms, MaxRings),
        roffs \in OffsetArrays(MaxRings, MaxPts),
        pts \in SeqsUpTo(RingPointVals, MaxPts) :
       LET num_polys == Len(poffs) - 1
           num_rings == Len(roffs) - 1
           num_vertices == Len(pts)
       IN  /\ \/ num_polys = 0
              \/ /\ WellFormedOffsets(poffs, num_rings)
                 /\ WellFormedOffsets(roffs, num_vertices)
           /\ offsets' = poffs
           /\ ring_offsets' = roffs
           /\ points' = pts
           /\ pc' = polygon_entry(num_polys)
  /\ radius' \in RadiusVals
  /\ nanRule' \in NanRules
  /\ kind' = "polygon"
  /\ UNCHANGED <<ids, parts, out, ret, err, work, reordered, m, f>>

\* polygon_bounding_boxes, lines 165-170
PolygonValidate ==
  /\ pc = "validate"
  /\ LET valid == ValidPolygonSizes(Len(points), Len(offsets), Len(ring_offsets))
         next == polygon_validated(valid, Len(offsets) - 1, Len(ring_offsets) - 1,
                                   Len(points))
     IN  /\ pc' = next
         /\ err' = IF next = "error" THEN "InvalidGeometryError" ELSE err
  /\ UNCHANGED <<kind, ids, points, radius, offsets, ring_offsets, parts, out, ret,
                 work, reordered, nanRule, m, f>>

\* polygon_bounding_boxes, lines 172-173
PolygonExpand ==
  /\ pc = "expand"
  /\ kind = "polygon"
  /\ ids' = geometry_ids_2(offsets, ring_offsets, Len(points))
  /\ work' = work \cup {"expand"}
  /\ pc' = "transform"
  /\ UNCHANGED <<kind, points, radius, offsets, ring_offsets, parts, out, ret, err,
                 reordered, nanRule, m, f>>

----------------------------------------------------------------------------
(* point_bounding_boxes                                                     *)

\* lines 74-86: the transform iterator and the enqueued reduce_by_key
StartReduce ==
  /\ pc = "transform"
  /\ parts' = point_bboxes(ids, points, radius)
  /\ work' = work \cup {"reduce"}
  /\ pc' = "reduce"
  /\ UNCHANGED <<kind, ids, points, radius, offsets, ring_offsets, out, ret, err,
                 reordered, nanRule, m, f>>

\* one application of box_minmax to two partial results of the same run
ReduceStep ==
  /\ pc = "reduce"
  /\ \E i, j \in 1..Len(parts), leftFirst \in BOOLEAN :
       /\ i < j
       /\ parts[i].run = parts[j].run
       /\ parts' = MergeParts(parts, i, j, leftFirst)
       /\ reordered' = (reordered \/ ~IsSequentialMerge(parts, i, j, leftFirst))
  /\ UNCHANGED <<pc, kind, ids, points, radius, offsets, ring_offsets, out, ret, err,
                 work, nanRule, m, f>>

\* every run is down to one box: the boxes are written, line 88 returns the end
ReduceDone ==
  /\ pc = "reduce"
  /\ Reduced(parts)
  /\ out' = [i \in 1..Len(parts) |-> parts[i].b]
  /\ ret' = Len(parts)
  /\ pc' = "done"
  /\ UNCHANGED <<kind, ids, points, radius, offsets, ring_offsets, parts, err, work,
                 reordered, nanRule, m, f>>

Next ==
  \/ PointCall
  \/ LinestringCall
  \/ LinestringExpand
  \/ PolygonCall
  \/ PolygonValidate
  \/ PolygonExpand
  \/ StartReduce
  \/ ReduceStep
  \/ ReduceDone

Spec == Init /\ [][Next]_vars

----------------------------------------------------------------------------
(* box_minmax as a function of arbitrary boxes.                             *)

MergeBoxVals ==
  {[v1 |-> <<x1, y1>>, v2 |-> <<x2, y2>>] :
     x1 \in {0, 1, NaN}, x2 \in {0, 1, NaN}, y1 \in {0, 1}, y2 \in {0, 1}}

InitMerge ==
  /\ pc = "idle"
  /\ kind = "none"
  /\ ids = <<>>
  /\ points = <<>>
  /\ radius = 0
  /\ offsets = <<>>
  /\ ring_offsets = <<>>
  /\ parts = <<>>
  /\ out = NoBoxes
  /\ ret = 0
  /\ err = "none"
  /\ work = {}
  /\ reordered = FALSE
  /\ nanRule \in NanRules
  /\ \E a \in MergeBoxVals, b \in MergeBoxVals, c \in MergeBoxVals :
       m = [pc |-> "start", a |-> a, b |-> b, c |-> c,
            ab |-> a, ba |-> a, bc |-> a, ab_c |-> a, a_bc |-> a]
  /\ f = [pc |-> "unused"]

MergePair ==
  /\ m.pc = "start"
  /\ m' = [m EXCEPT !.pc = "pair",
                    !.ab = box_minmax(m.a, m.b),
                    !.ba = box_minmax(m.b, m.a),
                    !.bc = box_minmax(m.b, m.c)]
  /\ UNCHANGED <<pc, kind, ids, points, radius, offsets, ring_offsets, parts, out,
                 ret, err, work, reordered, nanRule, f>>

MergeTriple ==
  /\ m.pc = "pair"
  /\ m' = [m EXCEPT !.pc = "done",
                    !.ab_c = box_minmax(m.ab, m.c),
                    !.a_bc = box_minmax(m.a, m.bc)]
  /\ UNCHANGED <<pc, kind, ids, points, radius, offsets, ring_offsets, parts, out,
                 ret, err, work, reordered, nanRule, f>>

NextMerge ==
  \/ MergePair
  \/ MergeTriple

SpecMerge == InitMerge /\ [][NextMerge]_vars

----------------------------------------------------------------------------
(* float_equal on a small sign-magnitude floating-point format:             *)
(* 1 sign bit, ExpBits exponent bits, MantBits mantissa bits.               *)

default_max_ulp == 4

RECURSIVE Pow2(_)
Pow2(n) == IF n = 0 THEN 1 ELSE 2 * Pow2(n - 1)

NumBits == 1 + ExpBits + MantBits
BitPatterns == 0..(Pow2(NumBits) - 1)

RECURSIVE BitAnd(_, _, _)
BitAnd(x, y, n) ==
  IF n = 0 THEN 0
  ELSE (x % 2) * (y % 2) + 2 * BitAnd(x \div 2, y \div 2, n - 1)

RECURSIVE BitOr(_, _, _)
BitOr(x, y, n) ==
  IF n = 0 THEN 0
  ELSE (IF x % 2 = 1 \/ y % 2 = 1 THEN 1 ELSE 0) + 2 * BitOr(x \div 2, y \div 2, n - 1)

BitNot(x) == Pow2(NumBits) - 1 - x

\* Bits{1} << 8 * sizeof(Bits) - 1
sign_bit_mask == Pow2(NumBits - 1)

signmagnitude_to_biased_nocarry(sam) ==
  IF BitAnd(sam, sign_bit_mask, NumBits) # 0
  THEN BitNot(sam)
  ELSE BitOr(sam, sign_bit_mask, NumBits)

signmagnitude_to_biased(sam) ==
  IF BitAnd(sam, sign_bit_mask, NumBits) # 0
  THEN (BitNot(sam) + 1) % Pow2(NumBits)
  ELSE BitOr(sam, sign_bit_mask, NumBits)

\* fields of a bit pattern
SignOf(b) == b \div Pow2(NumBits - 1)
ExpOf(b) == (b \div Pow2(MantBits)) % Pow2(ExpBits)
MantOf(b) == b % Pow2(MantBits)

\* std::isnan: exponent all ones and a non-zero mantissa
isnan(b) == ExpOf(b) = Pow2(ExpBits) - 1 /\ MantOf(b) # 0

float_equal(lhs, rhs, max_ulp) ==
  IF isnan(lhs) \/ isnan(rhs) THEN FALSE
  ELSE LET lhsbiased == signmagnitude_to_biased(lhs)
           rhsbiased == signmagnitude_to_biased(rhs)
       IN  IF lhsbiased >= rhsbiased
           THEN (lhsbiased - rhsbiased) <= max_ulp
           ELSE (rhsbiased - lhsbiased) <= max_ulp

UlpVals == {0, 1, default_max_ulp}

InitFloat ==
  /\ pc = "idle"
  /\ kind = "none"
  /\ ids = <<>>
  /\ points = <<>>
  /\ radius = 0
  /\ offsets = <<>>
  /\ ring_offsets = <<>>
  /\ parts = <<>>
  /\ out = NoBoxes
  /\ ret = 0
  /\ err = "none"
  /\ work = {}
  /\ reordered = FALSE
  /\ nanRule = "ignore"
  /\ m = [pc |-> "unused"]
  /\ \E lhs \in BitPatterns, rhs \in BitPatterns, u \in UlpVals :
       f = [pc |-> "start", lhs |-> lhs, rhs |-> rhs, max_ulp |-> u, result |-> FALSE]

FloatEqual ==
  /\ f.pc = "start"
  /\ f' = [f EXCEPT !.pc = "done", !.result = float_equal(f.lhs, f.rhs, f.max_ulp)]
  /\ UNCHANGED <<pc, kind, ids, points, radius, offsets, ring_offsets, parts, out,
                 ret, err, work, reordered, nanRule, m>>

NextFloat == FloatEqual

SpecFloat == InitFloat /\ [][NextFloat]_vars

----------------------------------------------------------------------------
(* Reference notions the properties are stated with.                        *)

\* first positions of the maximal runs of equal adjacent ids
RunStarts(keys) == {i \in 1..Len(keys) : i = 1 \/ keys[i] # keys[i - 1]}
NumRuns(keys) == Cardinality(RunStarts(keys))

\* positions of the k-th run
RunStart(keys, k) ==
  CHOOSE i \in RunStarts(keys) : Cardinality({j \in RunStarts(keys) : j <= i}) = k
RunMembers(keys, k) ==
  {i \in 1..Len(keys) :
     /\ i >= RunStart(keys, k)
     /\ \A j \in RunStarts(keys) : j > RunStart(keys, k) => i < j}

\* minimum and maximum of a non-empty set of coordinates under the NaN rule
RefMin(S) ==
  LET T == S \ {NaN}
  IN  IF T = {} \/ (nanRule = "propagate" /\ NaN \in S) THEN NaN
      ELSE CHOOSE x \in T : \A y \in T : x <= y
RefMax(S) ==
  LET T == S \ {NaN}
  IN  IF T = {} \/ (nanRule = "propagate" /\ NaN \in S) THEN NaN
      ELSE CHOOSE x \in T : \A y \in T : x >= y

\* the bounding box of the points at positions I, each expanded by r
RefBox(pts, I, r) ==
  [v1 |-> <<RefMin({fsub(pts[i][1], r) : i \in I}), RefMin({fsub(pts[i][2], r) : i \in I})>>,
   v2 |-> <<RefMax({fadd(pts[i][1], r) : i \in I}), RefMax({fadd(pts[i][2], r) : i \in I})>>]

\* the left-to-right sequential keyed reduction
RECURSIVE SeqReduce(_, _, _, _)
SeqReduce(keys, pts, r, n) ==
  IF n = 0 THEN <<>>
  ELSE LET prev == SeqReduce(keys, pts, r, n - 1)
           b == point_bounding_box(r, pts[n])
       IN  IF n > 1 /\ keys[n - 1] = keys[n]
           THEN [prev EXCEPT ![Len(prev)] = box_minmax(prev[Len(prev)], b)]
           ELSE Append(prev, b)

Ordered(b) == fle(b.v1[1], b.v2[1]) /\ fle(b.v1[2], b.v2[2])

HasNaN(pts) == \E i \in 1..Len(pts) : pts[i][1] = NaN \/ pts[i][2] = NaN

Reduction == pc = "done" /\ "reduce" \in work

----------------------------------------------------------------------------
(* C1: point_bounding_boxes writes exactly one box per maximal contiguous   *)
(* run of equal ids and returns bounding_boxes_first plus the number of     *)
(* runs; an id value that comes back in a later, non-adjacent run gets a    *)
(* box of its own.                                                          *)
C1_OneBoxPerRun ==
  Reduction => Len(out) = NumRuns(ids) /\ ret = NumRuns(ids)

C1_Witness ==
  /\ Reduction
  /\ kind = "point"
  /\ ids = <<0, 1, 0>>
  /\ Len(out) = 3

(* C2: the box written for a run has as min corner the coordinate-wise      *)
(* minimum of p - (r,r) and as max corner the coordinate-wise maximum of    *)
(* p + (r,r) over the points p of the run.                                  *)
C2_RunBox ==
  Reduction =>
    /\ Len(out) = NumRuns(ids)
    /\ \A k \in 1..NumRuns(ids) : out[k] = RefBox(points, RunMembers(ids, k), radius)

C2_Witness ==
  /\ Reduction
  /\ kind = "point"
  /\ radius = 1
  /\ ids = <<0, 0, 1>>
  /\ points = << <<0, 0>>, <<2, 1>>, <<0, 0>> >>
  /\ out = << [v1 |-> <<-1, -1>>, v2 |-> <<3, 2>>], [v1 |-> <<-1, -1>>, v2 |-> <<1, 1>>] >>

(* C3: for non-decreasing linestring offsets of length N+1, N >= 1, whose   *)
(* last offset is the vertex count (>= 1), linestring_bounding_boxes writes *)
(* exactly N boxes, box i bounding the vertices offsets[i] <= v <           *)
(* offsets[i+1].                                                            *)
C3_OneBoxPerLinestring ==
  (/\ kind = "linestring"
   /\ pc = "done"
   /\ Len(offsets) - 1 >= 1
   /\ Len(points) >= 1
   /\ Last(offsets) = Len(points))
  => /\ Len(out) = Len(offsets) - 1
     /\ ret = Len(offsets) - 1
     /\ \A i \in 1..(Len(offsets) - 1) :
          offsets[i] < offsets[i + 1] =>
            out[i] = RefBox(points, (offsets[i] + 1)..offsets[i + 1], radius)

(* C4: for an input of polygon_bounding_boxes that passes validation with   *)
(* P >= 1 polygons, the output has exactly P boxes, box p bounding every    *)
(* vertex of every ring of polygon p.                                       *)
PolygonVertices(p) ==
  {v \in 1..Len(points) :
     \E rg \in (offsets[p] + 1)..offsets[p + 1] :
       ring_offsets[rg] < v /\ v <= ring_offsets[rg + 1]}

C4_OneBoxPerPolygon ==
  (/\ kind = "polygon"
   /\ pc = "done"
   /\ Len(offsets) - 1 >= 1)
  => /\ Len(out) = Len(offsets) - 1
     /\ ret = Len(offsets) - 1
     /\ \A p \in 1..(Len(offsets) - 1) :
          PolygonVertices(p) # {} => out[p] = RefBox(points, PolygonVertices(p), radius)

(* C5: in polygon_bounding_boxes with polygon count > 0 the size validation *)
(* runs before id expansion and reduction; with an inconsistent size triad  *)
(* the call ends in InvalidGeometryError, no expansion or reduction stage   *)
(* is ever started and the output is left as it was.                        *)
C5_ValidationFirst ==
  (kind = "polygon" /\ Len(offsets) - 1 > 0) =>
    /\ pc = "validate" => work = {} /\ parts = <<>> /\ out = NoBoxes
    /\ ~ValidPolygonSizes(Len(points), Len(offsets), Len(ring_offsets)) =>
         /\ pc \in {"validate", "error"}
         /\ pc = "error" => err = "InvalidGeometryError"
         /\ work = {}
         /\ parts = <<>>
         /\ out = NoBoxes
         /\ ret = 0

C5_Witness ==
  /\ kind = "polygon"
  /\ pc = "error"
  /\ err = "InvalidGeometryError"
  /\ Len(offsets) = 2
  /\ Len(ring_offsets) = 3
  /\ Len(points) = 1
  /\ work = {}

(* C6: the boxes do not depend on how the runs are split and in which order *)
(* and grouping the partial boxes are merged: they are those of the         *)
(* left-to-right sequential reduction.                                      *)
C6_OrderIndependent ==
  Reduction => out = SeqReduce(ids, points, radius, Len(ids))

C6_Witness ==
  /\ Reduction
  /\ reordered
  /\ ids = <<1, 1, 1>>
  /\ points = << <<2, 1>>, <<0, 0>>, <<NaN, 1>> >>
  /\ radius = 1

(* C7: linestring_bounding_boxes with zero linestrings or zero vertices     *)
(* returns bounding_boxes_first, writes no box, raises no error and starts  *)
(* neither id expansion nor reduction.                                      *)
C7_EmptyLinestrings ==
  (kind = "linestring" /\ (Len(offsets) - 1 = 0 \/ Len(points) = 0)) =>
    /\ pc = "done"
    /\ ret = 0
    /\ out = NoBoxes
    /\ err = "none"
    /\ work = {}
    /\ parts = <<>>

C7_Witness ==
  /\ kind = "linestring"
  /\ pc = "done"
  /\ Len(offsets) = 3
  /\ Len(points) = 0
  /\ ret = 0

(* C8 as stated: every box written has min.x <= max.x and min.y <= max.y    *)
(* for every input with a non-negative expansion radius.                    *)
C8_Original ==
  (Reduction /\ radius >= 0) => \A k \in 1..Len(out) : Ordered(out[k])

(* C8 as amended: every box written has min.x <= max.x and min.y <= max.y   *)
(* for every input with a non-negative expansion radius and no NaN          *)
(* coordinate.                                                              *)
C8_OrderedBoxes ==
  (Reduction /\ radius >= 0 /\ ~HasNaN(points)) => \A k \in 1..Len(out) : Ordered(out[k])

C8_Witness ==
  /\ Reduction
  /\ reordered
  /\ radius = 1
  /\ ~HasNaN(points)
  /\ ids = <<0, 0, 0>>
  /\ out = << [v1 |-> <<-1, -1>>, v2 |-> <<3, 2>>] >>

----------------------------------------------------------------------------
(* Properties of float_equal and signmagnitude_to_biased.                   *)

\* the value of a non-NaN bit pattern, scaled to an integer; infinity comes
\* out above every finite value
Magnitude(b) ==
  IF ExpOf(b) = 0 THEN MantOf(b)
  ELSE (Pow2(MantBits) + MantOf(b)) * Pow2(ExpOf(b) - 1)
ValueOf(b) == IF SignOf(b) = 1 THEN 0 - Magnitude(b) ELSE Magnitude(b)

\* q is the next representable value above p (+0 and -0 are one value)
NextAbove(p, q) ==
  /\ ~isnan(p) /\ ~isnan(q)
  /\ ValueOf(p) < ValueOf(q)
  /\ \A x \in BitPatterns : ~isnan(x) => ~(ValueOf(p) < ValueOf(x) /\ ValueOf(x) < ValueOf(q))

AbsDiff(x, y) == IF x >= y THEN x - y ELSE y - x

(* C9: for a non-NaN value and the next representable value above it (+0    *)
(* and -0 being one value) the signmagnitude_to_biased images differ by     *)
(* exactly 1, so float_equal with max_ulp >= 1 is true on the pair; and     *)
(* float_equal with max_ulp = 0 is false on two distinct non-NaN values.    *)
C9_AdjacentOneUlp ==
  f.pc = "done" =>
    /\ (NextAbove(f.lhs, f.rhs) \/ NextAbove(f.rhs, f.lhs)) =>
         /\ AbsDiff(signmagnitude_to_biased(f.lhs), signmagnitude_to_biased(f.rhs)) = 1
         /\ f.max_ulp >= 1 => f.result
    /\ (/\ f.max_ulp = 0
        /\ ~isnan(f.lhs) /\ ~isnan(f.rhs)
        /\ ValueOf(f.lhs) # ValueOf(f.rhs)) => ~f.result

\* -0 and the smallest positive value, one ULP apart, found equal
C9_Witness ==
  /\ f.pc = "done"
  /\ f.lhs = sign_bit_mask
  /\ f.rhs = 1
  /\ f.max_ulp = 1
  /\ NextAbove(f.lhs, f.rhs)
  /\ f.result

----------------------------------------------------------------------------
(* Properties of box_minmax.                                                *)

MergeOrdered == Ordered(m.a) /\ Ordered(m.b) /\ Ordered(m.c)

(* C10 as stated: box_minmax is commutative and associative for all boxes   *)
(* a, b, c.                                                                 *)
C10_Original ==
  m.pc = "done" => m.ab = m.ba /\ m.ab_c = m.a_bc

(* C10 as amended: box_minmax is commutative and associative on all boxes   *)
(* a, b, c whose corners are ordered (v1 <= v2 in x and in y), and its      *)
(* result there is the element-wise min of the mins and max of the maxes.   *)
C10_OrderedBoxes ==
  (m.pc = "done" /\ MergeOrdered) =>
    /\ m.ab = m.ba
    /\ m.ab_c = m.a_bc
    /\ m.ab = [v1 |-> <<RefMin({m.a.v1[1], m.b.v1[1]}), RefMin({m.a.v1[2], m.b.v1[2]})>>,
               v2 |-> <<RefMax({m.a.v2[1], m.b.v2[1]}), RefMax({m.a.v2[2], m.b.v2[2]})>>]
    /\ m.ab_c =
         [v1 |-> <<RefMin({m.a.v1[1], m.b.v1[1], m.c.v1[1]}),
                   RefMin({m.a.v1[2], m.b.v1[2], m.c.v1[2]})>>,
          v2 |-> <<RefMax({m.a.v2[1], m.b.v2[1], m.c.v2[1]}),
                   RefMax({m.a.v2[2], m.b.v2[2], m.c.v2[2]})>>]

C10_Witness ==
  /\ m.pc = "done"
  /\ MergeOrdered
  /\ m.a = [v1 |-> <<1, 0>>, v2 |-> <<1, 1>>]
  /\ m.b = [v1 |-> <<0, 1>>, v2 |-> <<0, 1>>]
  /\ m.c = [v1 |-> <<0, 0>>, v2 |-> <<1, 0>>]
  /\ m.ab = [v1 |-> <<0, 0>>, v2 |-> <<1, 1>>]

====
